---- MODULE Spec2Model ----
(***************************************************************************)
(* Model of integration-tests/time-complexity.py of the Mork project:      *)
(*   - fold_profiler_data: folds the enter/exit events of every profiler   *)
(*     trace document into rows of mean durations per call path;           *)
(*   - calculate_fitting_funcs / find_best_instance_property /             *)
(*     analyze_complexity: ranks the candidate growth functions and picks  *)
(*     the instance property reported for every component.                 *)
(* Strings are sequences of one-character strings, so that joining with    *)
(* "/" and splitting at the last "/" are computed, not assumed.  Durations *)
(* and means are exact fractions <<numerator, denominator>>.               *)
(***************************************************************************)
EXTENDS Integers, Sequences, FiniteSets, TLC

VARIABLES
    pending,      \* entries of os.listdir(path) not yet visited
    data,         \* the list `data` of the document being processed
    pos,          \* position of the loop of line 66 in data
    stack,        \* the list `stack`: <<name, when>> of the open frames
    dict_data,    \* the defaultdict `dict_data`, in insertion order
    timestats,    \* the list `timestats`
    table,        \* the DataFrame returned by fold_profiler_data
    pc,           \* position of fold_profiler_data
    err,          \* the exception that left fold_profiler_data, if any
    components,   \* timestats['component'].unique()
    columns,      \* instances.columns
    ci,           \* position of the loop of line 180 in components
    pi,           \* position of the loop of line 165 in columns
    outs,         \* what curve_fit yields for the series of line 149, per candidate
    fits,         \* the list `fits` of find_best_instance_property
    best_r2,      \* the local best_r2
    best_fits,    \* the local best_fits
    tops,         \* the values max_r2 took at line 171 for this component
    found,        \* the list `fits` of analyze_complexity
    treemap_labels, \* the list treemap_labels
    spc,          \* position of analyze_complexity
    serr          \* the exception that left analyze_complexity, if any

foldVars == <<pending, data, pos, stack, dict_data, timestats, table, pc, err>>

selVars == <<components, columns, ci, pi, outs, fits, best_r2, best_fits, tops,
             found, treemap_labels, spc, serr>>

vars == <<foldVars, selVars>>

----------------------------------------------------------------------------
(* Bounds of the explored inputs. *)

MaxEvents == 4      \* events of the document of a one-document run
MaxWhen == 1        \* timestamps are drawn from 0..MaxWhen
MaxFiles == 2       \* directory entries of a several-document run
BatchEvents == 2    \* events per document of a several-document run

MaxProps == 2       \* instance properties besides id
MaxSurvive == 1     \* candidates curve_fit fits per series, several properties
MaxComponents == 2  \* components of a several-component run

NanosPerMilli == 1000000

----------------------------------------------------------------------------
(* Strings. *)

Slash == "/"
Colon == ":"

CodePoint ==
    ("/" :> 47) @@ ("1" :> 49) @@ ("2" :> 50) @@ (":" :> 58) @@
    ("A" :> 65) @@ ("B" :> 66) @@ ("i" :> 105) @@ ("m" :> 109)

RECURSIVE StrLess(_, _)
StrLess(s, t) ==
    IF t = <<>> THEN FALSE
    ELSE IF s = <<>> THEN TRUE
    ELSE IF CodePoint[Head(s)] # CodePoint[Head(t)]
         THEN CodePoint[Head(s)] < CodePoint[Head(t)]
         ELSE StrLess(Tail(s), Tail(t))

Front(s) == SubSeq(s, 1, Len(s) - 1)
Last(s) == s[Len(s)]

Clazzes == {<<"A">>, <<"B">>}
Methods == {<<"m">>}
Instances == {<<"i", "1">>, <<"i", "2">>}

Events ==
    [when : 0..MaxWhen, enter : BOOLEAN, clazz : Clazzes, method : Methods]

QualifiedName(i) == i.clazz \o <<Colon, Colon>> \o i.method

RECURSIVE get_full_name(_)
get_full_name(st) ==
    IF st = <<>> THEN <<>>
    ELSE IF Len(st) = 1 THEN st[1][1]
    ELSE get_full_name(Front(st)) \o <<Slash>> \o Last(st)[1]

HasSlash(k) == \E n \in 1..Len(k) : k[n] = Slash

LastSlash(k) == CHOOSE n \in 1..Len(k) :
    k[n] = Slash /\ \A j \in (n + 1)..Len(k) : k[j] # Slash

RSplit(k) ==
    IF HasSlash(k)
    THEN <<SubSeq(k, 1, LastSlash(k) - 1), SubSeq(k, LastSlash(k) + 1, Len(k))>>
    ELSE <<<<>>, k>>

----------------------------------------------------------------------------
(* Fractions. *)

RECURSIVE Gcd(_, _)
Gcd(a, b) == IF b = 0 THEN a ELSE Gcd(b, a % b)

Abs(n) == IF n < 0 THEN -n ELSE n

Frac(n, d) ==
    LET g == Gcd(Abs(n), d) IN <<n \div g, d \div g>>

FracAdd(p, q) ==
    LET g == Gcd(p[2], q[2])
    IN  Frac(p[1] * (q[2] \div g) + q[1] * (p[2] \div g), (p[2] \div g) * q[2])

RECURSIVE FracSum(_)
FracSum(v) == IF v = <<>> THEN <<0, 1>> ELSE FracAdd(v[1], FracSum(Tail(v)))

Mean(v) == LET s == FracSum(v) IN Frac(s[1], s[2] * Len(v))

Elapsed(exitWhen, enterWhen) == Frac(exitWhen - enterWhen, NanosPerMilli)

----------------------------------------------------------------------------
(* Sorting: list.sort and DataFrame.sort_values keep equal keys in order. *)

RECURSIVE InsertByWhen(_, _)
InsertByWhen(e, s) ==
    IF s = <<>> THEN <<e>>
    ELSE IF e.when < s[1].when THEN <<e>> \o s
    ELSE <<s[1]>> \o InsertByWhen(e, Tail(s))

RECURSIVE SortByWhen(_)
SortByWhen(s) ==
    IF s = <<>> THEN <<>>
    ELSE InsertByWhen(Last(s), SortByWhen(Front(s)))

RowLessByComponent(r, q) == StrLess(r.component, q.component)

RowLess(r, q) ==
    \/ StrLess(r.instance, q.instance)
    \/ r.instance = q.instance /\ StrLess(r.component, q.component)

RECURSIVE InsertRow(_, _)
InsertRow(r, s) ==
    IF s = <<>> THEN <<r>>
    ELSE IF RowLess(r, s[1]) THEN <<r>> \o s
    ELSE <<s[1]>> \o InsertRow(r, Tail(s))

RECURSIVE SortValues(_)
SortValues(s) ==
    IF s = <<>> THEN <<>>
    ELSE InsertRow(Last(s), SortValues(Front(s)))

----------------------------------------------------------------------------
(* dict_data: a sequence of [k, v] in the order the keys were first used. *)

HasKey(d, k) == \E n \in 1..Len(d) : d[n].k = k

DictAppend(d, k, x) ==
    IF HasKey(d, k)
    THEN [n \in 1..Len(d) |->
            IF d[n].k = k THEN [k |-> k, v |-> Append(d[n].v, x)] ELSE d[n]]
    ELSE Append(d, [k |-> k, v |-> <<x>>])

MakeRow(iid, kv) ==
    [instance |-> iid, component |-> kv.k, parent |-> RSplit(kv.k)[1],
     child |-> RSplit(kv.k)[2], time |-> Mean(kv.v)]

Rows(iid, d) == [n \in 1..Len(d) |-> MakeRow(iid, d[n])]

----------------------------------------------------------------------------
(* fold_profiler_data. *)

FoldIdle ==
    /\ pending = 0
    /\ data = <<>>
    /\ pos = 1
    /\ stack = <<>>
    /\ dict_data = <<>>
    /\ timestats = <<>>
    /\ table = <<>>
    /\ pc = "idle"
    /\ err = "none"

FoldInit(files) ==
    /\ pending \in files
    /\ data = <<>>
    /\ pos = 1
    /\ stack = <<>>
    /\ dict_data = <<>>
    /\ timestats = <<>>
    /\ table = <<>>
    /\ pc = "listdir"
    /\ err = "none"

SkipFile ==
    /\ pc = "listdir"
    /\ pending > 0
    /\ pending' = pending - 1
    /\ UNCHANGED <<data, pos, stack, dict_data, timestats, table, pc, err>>
    /\ UNCHANGED selVars

(* Lines 63-64 rebind dict_data and stack before anything reads them, so   *)
(* the values left by the previous document are dropped here already.     *)
OpenFile ==
    /\ pc = "listdir"
    /\ pending > 0
    /\ pending' = pending - 1
    /\ data' = <<>>
    /\ dict_data' = <<>>
    /\ stack' = <<>>
    /\ pos' = 1
    /\ pc' = "load"
    /\ UNCHANGED <<timestats, table, err>>
    /\ UNCHANGED selVars

ReadEvent(limit) ==
    /\ pc = "load"
    /\ Len(data) < limit
    /\ \E i \in Events : data' = Append(data, i)
    /\ UNCHANGED <<pending, pos, stack, dict_data, timestats, table, pc, err>>
    /\ UNCHANGED selVars

SortData ==
    /\ pc = "load"
    /\ data' = SortByWhen(data)
    /\ pc' = "fold"
    /\ UNCHANGED <<pending, pos, stack, dict_data, timestats, table, err>>
    /\ UNCHANGED selVars

EnterEvent ==
    /\ pc = "fold"
    /\ pos <= Len(data)
    /\ data[pos].enter
    /\ stack' = Append(stack, <<QualifiedName(data[pos]), data[pos].when>>)
    /\ pos' = pos + 1
    /\ UNCHANGED <<pending, data, dict_data, timestats, table, pc, err>>
    /\ UNCHANGED selVars

(* Variants of ExitEvent: without the name check of line 73; with the     *)
(* name check made on an empty stack too; with the path taken after the   *)
(* pop of line 72.                                                        *)
ExitEventUnchecked ==
    /\ pc = "fold"
    /\ pos <= Len(data)
    /\ ~data[pos].enter
    /\ IF stack = <<>>
       THEN /\ pc' = "raised"
            /\ err' = "IndexError"
            /\ UNCHANGED <<stack, dict_data, pos>>
       ELSE /\ stack' = Front(stack)
            /\ dict_data' = DictAppend(dict_data, get_full_name(stack),
                                       Elapsed(data[pos].when, Last(stack)[2]))
            /\ pos' = pos + 1
            /\ UNCHANGED <<pc, err>>
    /\ UNCHANGED <<pending, data, timestats, table>>
    /\ UNCHANGED selVars

ExitEventPeek ==
    /\ pc = "fold"
    /\ pos <= Len(data)
    /\ ~data[pos].enter
    /\ IF stack = <<>> \/ QualifiedName(data[pos]) # Last(stack)[1]
       THEN /\ pc' = "raised"
            /\ err' = "UnexpectedStackFrame"
            /\ UNCHANGED <<stack, dict_data, pos>>
       ELSE /\ stack' = Front(stack)
            /\ dict_data' = DictAppend(dict_data, get_full_name(stack),
                                       Elapsed(data[pos].when, Last(stack)[2]))
            /\ pos' = pos + 1
            /\ UNCHANGED <<pc, err>>
    /\ UNCHANGED <<pending, data, timestats, table>>
    /\ UNCHANGED selVars

ExitEventPathAfterPop ==
    /\ pc = "fold"
    /\ pos <= Len(data)
    /\ ~data[pos].enter
    /\ IF stack = <<>>
       THEN /\ pc' = "raised"
            /\ err' = "IndexError"
            /\ UNCHANGED <<stack, dict_data, pos>>
       ELSE /\ stack' = Front(stack)
            /\ IF QualifiedName(data[pos]) # Last(stack)[1]
               THEN /\ pc' = "raised"
                    /\ err' = "UnexpectedStackFrame"
                    /\ UNCHANGED <<dict_data, pos>>
               ELSE /\ dict_data' = DictAppend(dict_data, get_full_name(Front(stack)),
                                               Elapsed(data[pos].when, Last(stack)[2]))
                    /\ pos' = pos + 1
                    /\ UNCHANGED <<pc, err>>
    /\ UNCHANGED <<pending, data, timestats, table>>
    /\ UNCHANGED selVars

ExitEvent ==
    /\ pc = "fold"
    /\ pos <= Len(data)
    /\ ~data[pos].enter
    /\ LET name == QualifiedName(data[pos])
           current == get_full_name(stack)
       IN  IF stack = <<>>
           THEN /\ pc' = "raised"
                /\ err' = "IndexError"
                /\ UNCHANGED <<stack, dict_data, pos>>
           ELSE LET start == Last(stack)
                IN  /\ stack' = Front(stack)
                    /\ IF name # start[1]
                       THEN /\ pc' = "raised"
                            /\ err' = "UnexpectedStackFrame"
                            /\ UNCHANGED <<dict_data, pos>>
                       ELSE /\ dict_data' =
                                  DictAppend(dict_data, current,
                                             Elapsed(data[pos].when, start[2]))
                            /\ pos' = pos + 1
                            /\ UNCHANGED <<pc, err>>
    /\ UNCHANGED <<pending, data, timestats, table>>
    /\ UNCHANGED selVars

(* jsondata['instanceId'] is read at line 79 for the first time: its value *)
(* is drawn here.                                                         *)
EmitRows ==
    /\ pc = "fold"
    /\ pos > Len(data)
    /\ \E iid \in Instances : timestats' = timestats \o Rows(iid, dict_data)
    /\ pc' = "listdir"
    /\ UNCHANGED <<pending, data, pos, stack, dict_data, table, err>>
    /\ UNCHANGED selVars

ReturnTable ==
    /\ pc = "listdir"
    /\ pending = 0
    /\ IF timestats = <<>>
       THEN /\ pc' = "raised"
            /\ err' = "KeyError"
            /\ UNCHANGED table
       ELSE /\ table' = SortValues(timestats)
            /\ pc' = "returned"
            /\ UNCHANGED err
    /\ UNCHANGED <<pending, data, pos, stack, dict_data, timestats>>
    /\ UNCHANGED selVars

----------------------------------------------------------------------------
(* The candidate functions, in the order get_functions declares them. *)

Catalog == <<"a", "a log(n)", "a n", "a n log(n)", "a n^2", "a 2^n">>

CatalogIndex(name) == CHOOSE n \in 1..Len(Catalog) : Catalog[n] = name

(* curve_fit and the R2 of lines 128-134 are not computed: per candidate,  *)
(* the fit either has a NaN covariance or an R2 taken from R2Values.       *)
R2Values == {-1, 0, 1, 2}
NaNCov == [nan |-> TRUE, r2 |-> 0]

Survivors(o) == {n \in 1..Len(Catalog) : ~o[n].nan}

Fitted(v) == [nan |-> FALSE, r2 |-> v]

Outcomes(limit) ==
    UNION {{[n \in 1..Len(Catalog) |-> IF n \in S THEN Fitted(f[n]) ELSE NaNCov] :
                f \in [S -> R2Values]} :
           S \in {T \in SUBSET (1..Len(Catalog)) : Cardinality(T) <= limit}}

None == [none |-> TRUE]

calculate_fitting_func(o, f_name, instance_property) ==
    IF o.nan THEN None
    ELSE [name |-> f_name, instance_prop |-> instance_property, r2 |-> o.r2]

RECURSIVE InsertByR2TiesFirst(_, _)
InsertByR2TiesFirst(e, s) ==
    IF s = <<>> THEN <<e>>
    ELSE IF e.r2 >= s[1].r2 THEN <<e>> \o s
    ELSE <<s[1]>> \o InsertByR2TiesFirst(e, Tail(s))

RECURSIVE InsertByR2(_, _)
InsertByR2(e, s) ==
    IF s = <<>> THEN <<e>>
    ELSE IF e.r2 > s[1].r2 THEN <<e>> \o s
    ELSE <<s[1]>> \o InsertByR2(e, Tail(s))

RECURSIVE SortByR2(_)
SortByR2(s) ==
    IF s = <<>> THEN <<>>
    ELSE InsertByR2(Last(s), SortByR2(Front(s)))

RECURSIVE FitAll(_, _, _)
FitAll(o, instance_property, n) ==
    IF n = 0 THEN <<>>
    ELSE LET fit == calculate_fitting_func(o[n], Catalog[n], instance_property)
         IN  IF fit # None
             THEN Append(FitAll(o, instance_property, n - 1), fit)
             ELSE FitAll(o, instance_property, n - 1)

calculate_fitting_funcs(o, instance_property) ==
    SortByR2(FitAll(o, instance_property, Len(Catalog)))

----------------------------------------------------------------------------
(* find_best_instance_property and analyze_complexity. *)

PropNames == <<"n", "m", "k", "d">>
ComponentNames == <<"c1", "c2", "c3", "c4">>
NoOuts == [n \in 1..Len(Catalog) |-> NaNCov]

ColumnLists(props) ==
    UNION {{<<"id">> \o SubSeq(PropNames, 1, n), SubSeq(PropNames, 1, n) \o <<"id">>} :
           n \in props}

SelIdle ==
    /\ components = <<>>
    /\ columns = <<>>
    /\ ci = 1
    /\ pi = 1
    /\ outs = NoOuts
    /\ fits = <<>>
    /\ best_r2 = 0
    /\ best_fits = <<>>
    /\ tops = <<>>
    /\ found = <<>>
    /\ treemap_labels = <<>>
    /\ spc = "idle"
    /\ serr = "none"

SelInit(comps, props) ==
    /\ \E n \in comps : components = SubSeq(ComponentNames, 1, n)
    /\ columns \in ColumnLists(props)
    /\ ci = 1
    /\ pi = 1
    /\ outs = NoOuts
    /\ fits = <<>>
    /\ best_r2 = 0
    /\ best_fits = <<>>
    /\ tops = <<>>
    /\ found = <<>>
    /\ treemap_labels = <<>>
    /\ spc = "analyze"
    /\ serr = "none"

StartComponent ==
    /\ spc = "analyze"
    /\ ci <= Len(components)
    /\ best_r2' = 0
    /\ best_fits' = <<>>
    /\ pi' = 1
    /\ tops' = <<>>
    /\ fits' = <<>>
    /\ outs' = NoOuts
    /\ found' = <<>>
    /\ spc' = "scan"
    /\ UNCHANGED <<components, columns, ci, treemap_labels, serr>>
    /\ UNCHANGED foldVars

SkipId ==
    /\ spc = "scan"
    /\ pi <= Len(columns)
    /\ columns[pi] = "id"
    /\ pi' = pi + 1
    /\ UNCHANGED <<components, columns, ci, outs, fits, best_r2, best_fits, tops,
                   found, treemap_labels, spc, serr>>
    /\ UNCHANGED foldVars

CallFittingFuncs(limit) ==
    /\ spc = "scan"
    /\ pi <= Len(columns)
    /\ columns[pi] # "id"
    /\ \E o \in Outcomes(limit) :
          /\ outs' = o
          /\ fits' = calculate_fitting_funcs(o, columns[pi])
    /\ spc' = "compare"
    /\ UNCHANGED <<components, columns, ci, pi, best_r2, best_fits, tops,
                   found, treemap_labels, serr>>
    /\ UNCHANGED foldVars

(* Variant of Compare that keeps best_r2 up to date. *)
CompareUpdating ==
    /\ spc = "compare"
    /\ IF fits = <<>>
       THEN /\ spc' = "raised"
            /\ serr' = "IndexError"
            /\ UNCHANGED <<pi, best_fits, tops, best_r2>>
       ELSE LET max_r2 == fits[1].r2
            IN  /\ tops' = Append(tops, max_r2)
                /\ best_fits' = IF max_r2 > best_r2 THEN fits ELSE best_fits
                /\ best_r2' = IF max_r2 > best_r2 THEN max_r2 ELSE best_r2
                /\ pi' = pi + 1
                /\ spc' = "scan"
                /\ UNCHANGED serr
    /\ UNCHANGED <<components, columns, ci, outs, fits, found, treemap_labels>>
    /\ UNCHANGED foldVars

Compare ==
    /\ spc = "compare"
    /\ IF fits = <<>>
       THEN /\ spc' = "raised"
            /\ serr' = "IndexError"
            /\ UNCHANGED <<pi, best_fits, tops>>
       ELSE LET max_r2 == fits[1].r2
            IN  /\ tops' = Append(tops, max_r2)
                /\ best_fits' = IF max_r2 > best_r2 THEN fits ELSE best_fits
                /\ pi' = pi + 1
                /\ spc' = "scan"
                /\ UNCHANGED serr
    /\ UNCHANGED <<components, columns, ci, outs, fits, best_r2, found, treemap_labels>>
    /\ UNCHANGED foldVars

ReturnBest ==
    /\ spc = "scan"
    /\ pi > Len(columns)
    /\ found' = best_fits
    /\ spc' = "returned"
    /\ UNCHANGED <<components, columns, ci, pi, outs, fits, best_r2, best_fits, tops,
                   treemap_labels, serr>>
    /\ UNCHANGED foldVars

Label(component_name, best) ==
    [component |-> component_name, property |-> best.instance_prop,
     function |-> best.name, r2 |-> best.r2]

ReportBest ==
    /\ spc = "returned"
    /\ IF found = <<>>
       THEN /\ spc' = "raised"
            /\ serr' = "IndexError"
            /\ UNCHANGED <<ci, treemap_labels>>
       ELSE /\ treemap_labels' = Append(treemap_labels, Label(components[ci], found[1]))
            /\ ci' = ci + 1
            /\ spc' = "analyze"
            /\ UNCHANGED serr
    /\ UNCHANGED <<components, columns, pi, outs, fits, best_r2, best_fits, tops, found>>
    /\ UNCHANGED foldVars

DrawTreemap ==
    /\ spc = "analyze"
    /\ ci > Len(components)
    /\ spc' = "done"
    /\ UNCHANGED <<components, columns, ci, pi, outs, fits, best_r2, best_fits, tops,
                   found, treemap_labels, serr>>
    /\ UNCHANGED foldVars

----------------------------------------------------------------------------
(* One trace document in the directory. *)

InitFold == FoldInit({1}) /\ SelIdle

NextFold ==
    \/ SkipFile
    \/ OpenFile
    \/ ReadEvent(MaxEvents)
    \/ SortData
    \/ EnterEvent
    \/ ExitEvent
    \/ EmitRows
    \/ ReturnTable

SpecFold == InitFold /\ [][NextFold]_vars

(* Up to MaxFiles directory entries, short documents. *)

InitBatch == FoldInit(1..MaxFiles) /\ SelIdle

NextBatch ==
    \/ SkipFile
    \/ OpenFile
    \/ ReadEvent(BatchEvents)
    \/ SortData
    \/ EnterEvent
    \/ ExitEvent
    \/ EmitRows
    \/ ReturnTable

SpecBatch == InitBatch /\ [][NextBatch]_vars

----------------------------------------------------------------------------
(* One component, one property, every candidate free to fit or fail. *)

InitFits == FoldIdle /\ SelInit({1}, {1})

NextFits ==
    \/ StartComponent
    \/ SkipId
    \/ CallFittingFuncs(Len(Catalog))
    \/ Compare
    \/ ReturnBest
    \/ ReportBest
    \/ DrawTreemap

SpecFits == InitFits /\ [][NextFits]_vars

(* One component, up to MaxProps properties. *)

InitSelect == FoldIdle /\ SelInit({1}, 1..MaxProps)

NextSelect ==
    \/ StartComponent
    \/ SkipId
    \/ CallFittingFuncs(MaxSurvive)
    \/ Compare
    \/ ReturnBest
    \/ ReportBest
    \/ DrawTreemap

SpecSelect == InitSelect /\ [][NextSelect]_vars

(* Up to MaxComponents components. *)

InitAnalyze == FoldIdle /\ SelInit(1..MaxComponents, 1..MaxProps)

SpecAnalyze == InitAnalyze /\ [][NextSelect]_vars

----------------------------------------------------------------------------
(* Notions the properties below are stated in. *)

IsExitAt(d, p) == p <= Len(d) /\ ~d[p].enter

Enters(d, a, b) == Cardinality({n \in a..b : d[n].enter})
Exits(d, a, b) == Cardinality({n \in a..b : ~d[n].enter})

(* The enter event an exit event at p closes: the nearest earlier enter    *)
(* with as many enters as exits between the two.                           *)
IsMatch(d, m, p) == d[m].enter /\ Enters(d, m + 1, p - 1) = Exits(d, m + 1, p - 1)

Match(d, p) == CHOOSE m \in 1..(p - 1) :
    IsMatch(d, m, p) /\ \A j \in (m + 1)..(p - 1) : ~IsMatch(d, j, p)

Balanced(d) ==
    /\ \A p \in 1..Len(d) : Enters(d, 1, p) >= Exits(d, 1, p)
    /\ Enters(d, 1, Len(d)) = Exits(d, 1, Len(d))
    /\ \A p \in 1..Len(d) :
          ~d[p].enter => QualifiedName(d[p]) = QualifiedName(d[Match(d, p)])

(* The enter events before p that no exit before p has closed. *)
OpenAt(d, p) ==
    {m \in 1..(p - 1) :
        d[m].enter /\ \A q \in (m + 1)..(p - 1) : Exits(d, m + 1, q) <= Enters(d, m + 1, q)}

RECURSIVE NamesFrom(_, _, _)
NamesFrom(d, S, n) ==
    IF n > Len(d) THEN <<>>
    ELSE IF n \in S THEN <<QualifiedName(d[n])>> \o NamesFrom(d, S, n + 1)
    ELSE NamesFrom(d, S, n + 1)

OpenNames(d, p) == NamesFrom(d, OpenAt(d, p), 1)

RECURSIVE JoinPath(_)
JoinPath(names) ==
    IF names = <<>> THEN <<>>
    ELSE IF Len(names) = 1 THEN names[1]
    ELSE names[1] \o <<"/">> \o JoinPath(Tail(names))

RECURSIVE Samples(_)
Samples(d) == IF d = <<>> THEN 0 ELSE Len(d[1].v) + Samples(Tail(d))

Lookup(d, k) == IF HasKey(d, k) THEN (d[CHOOSE n \in 1..Len(d) : d[n].k = k]).v ELSE <<>>

MismatchExit ==
    /\ pc = "fold"
    /\ IsExitAt(data, pos)
    /\ stack # <<>>
    /\ QualifiedName(data[pos]) # Last(stack)[1]

EmptyExit ==
    /\ pc = "fold"
    /\ IsExitAt(data, pos)
    /\ stack = <<>>

EndOfTrace == pc = "fold" /\ pos > Len(data)

(* C1: an exit event whose qualified name differs from the name of the     *)
(* frame on top of a non-empty stack raises the "Unexpected stack frame"   *)
(* exception, and neither a duration nor a row is recorded for it.         *)
C1_MismatchRaises ==
    [][MismatchExit =>
          /\ pc' = "raised"
          /\ err' = "UnexpectedStackFrame"
          /\ dict_data' = dict_data
          /\ timestats' = timestats]_vars

(* A mismatch raised two frames deep. *)
C1_Witness ==
    /\ pc = "raised"
    /\ err = "UnexpectedStackFrame"
    /\ Len(stack) >= 1
    /\ IsExitAt(data, pos)

(* C3: a document whose events are all consumed while frames are still     *)
(* open is reported: folding never gets past such a document.              *)
C3_TruncatedReported ==
    (pc = "listdir" \/ pc = "returned") => stack = <<>>

(* What an exit event of a balanced trace must do to dict_data. *)
C5_ExitStep ==
    (pc = "fold" /\ Balanced(data) /\ IsExitAt(data, pos)) =>
        LET open == OpenNames(data, pos)
            path == JoinPath(open)
            nanos == data[pos].when - data[Match(data, pos)].when
            recorded == Last(Lookup(dict_data', path))
        IN  /\ pc' = "fold"
            /\ pos' = pos + 1
            /\ Samples(dict_data') = Samples(dict_data) + 1
            /\ Len(Lookup(dict_data', path)) = Len(Lookup(dict_data, path)) + 1
            /\ Front(Lookup(dict_data', path)) = Lookup(dict_data, path)
            /\ \A n \in 1..Len(dict_data) :
                  dict_data[n].k # path => dict_data'[n] = dict_data[n]
            /\ recorded[1] * NanosPerMilli = nanos * recorded[2]
            /\ recorded[1] >= 0 /\ recorded[2] > 0
            /\ RSplit(path) = <<JoinPath(Front(open)), QualifiedName(data[pos])>>

(* C5: in a balanced, correctly nested trace every exit event records      *)
(* exactly one duration: (exit timestamp - timestamp of its matching       *)
(* enter) / 1000000, not negative, under the "/"-joined names of the       *)
(* frames open at that moment; the last segment of that path is the name   *)
(* of the closing frame and the rest is the path of its caller.            *)
C5_BalancedRoundTrip == [][C5_ExitStep]_vars

(* A nested balanced trace folded to its end, the inner call taking time. *)
C5_Witness ==
    /\ EndOfTrace
    /\ Balanced(data)
    /\ Len(data) = 4
    /\ \E n \in 1..Len(dict_data) :
          /\ HasSlash(dict_data[n].k)
          /\ dict_data[n].v[1][1] > 0

(* C7: a stack mismatch in one document does not end the batch: it never   *)
(* leaves fold_profiler_data while rows of other documents are held or     *)
(* other documents are still to be processed.                              *)
C7_MismatchIsolated ==
    ~(/\ pc = "raised"
      /\ err = "UnexpectedStackFrame"
      /\ (timestats # <<>> \/ pending > 0))

RowsInOrder(r, q) ==
    \/ StrLess(r.instance, q.instance)
    \/ r.instance = q.instance /\ ~StrLess(q.component, r.component)

Ordered(t) == \A n \in 1..(Len(t) - 1) : RowsInOrder(t[n], t[n + 1])

Count(r, t) == Cardinality({n \in 1..Len(t) : t[n] = r})

SameRows(t, u) ==
    /\ Len(t) = Len(u)
    /\ \A n \in 1..Len(t) : Count(t[n], t) = Count(t[n], u)

SameKey(r, q) == r.instance = q.instance /\ r.component = q.component

IsMean(t, v) ==
    LET sum == FracSum(v) IN t[1] * sum[2] * Len(v) = sum[1] * t[2]

C8_TableOfRows ==
    pc = "returned" => Ordered(table) /\ SameRows(table, timestats)

C8_DocumentRows ==
    EndOfTrace =>
        /\ Len(timestats') = Len(timestats) + Len(dict_data)
        /\ SubSeq(timestats', 1, Len(timestats)) = timestats
        /\ \A m, n \in 1..Len(dict_data) : m # n => dict_data[m].k # dict_data[n].k
        /\ \E iid \in Instances :
              \A n \in 1..Len(dict_data) :
                 LET r == timestats'[Len(timestats) + n]
                 IN  /\ r.instance = iid
                     /\ r.component = dict_data[n].k
                     /\ IsMean(r.time, dict_data[n].v)

C9_EmptyPopFails ==
    [][EmptyExit =>
          /\ pc' = "raised"
          /\ err' = "IndexError"
          /\ err' # "UnexpectedStackFrame"
          /\ dict_data' = dict_data
          /\ timestats' = timestats]_vars

(* An exit sorted before its own enter fails at the pop. *)
C9_Witness ==
    /\ pc = "raised"
    /\ err = "IndexError"
    /\ stack = <<>>
    /\ IsExitAt(data, pos)
    /\ \E n \in (pos + 1)..Len(data) :
          data[n].enter /\ QualifiedName(data[n]) = QualifiedName(data[pos])

----------------------------------------------------------------------------

NonId(cols) == SelectSeq(cols, LAMBDA c : c # "id")

MaxTop == CHOOSE v \in {tops[n] : n \in 1..Len(tops)} :
    \A n \in 1..Len(tops) : tops[n] <= v

FirstWithMaxTop == CHOOSE n \in 1..Len(tops) :
    tops[n] = MaxTop /\ \A j \in 1..(n - 1) : tops[j] # MaxTop

HasPositiveTop == \E n \in 1..Len(tops) : tops[n] > 0

LastPositiveTop == CHOOSE n \in 1..Len(tops) :
    tops[n] > 0 /\ \A j \in (n + 1)..Len(tops) : tops[j] <= 0

(* C2: find_best_instance_property returns the ranked fits of the property *)
(* whose top-ranked fit has the highest R2 of all scanned properties, the  *)
(* first-scanned one among equals.                                         *)
C2_HighestTopWins ==
    (spc = "returned" /\ HasPositiveTop) =>
        /\ found # <<>>
        /\ found[1].r2 = MaxTop
        /\ found[1].instance_prop = NonId(columns)[FirstWithMaxTop]

(* C4: a series none of whose candidates could be fitted never makes       *)
(* find_best_instance_property or analyze_complexity raise.                *)
C4_UnfittableDoesNotRaise ==
    ~(/\ spc = "raised"
      /\ fits = <<>>
      /\ tops = <<>>
      /\ \A n \in (pi + 1)..Len(columns) : columns[n] = "id")

(* C6: calculate_fitting_funcs returns exactly the candidates whose fit    *)
(* did not fail, each once, ordered by R2 non-increasing, candidates of    *)
(* equal R2 in the order the catalog declares them.                        *)
C6_RankedSurvivors ==
    spc = "compare" =>
        /\ Len(fits) = Cardinality(Survivors(outs))
        /\ \A n \in Survivors(outs) :
              \E j \in 1..Len(fits) :
                 fits[j] = [name |-> Catalog[n], instance_prop |-> columns[pi],
                            r2 |-> outs[n].r2]
        /\ \A j \in 1..(Len(fits) - 1) :
              \/ fits[j].r2 > fits[j + 1].r2
              \/ /\ fits[j].r2 = fits[j + 1].r2
                 /\ CatalogIndex(fits[j].name) < CatalogIndex(fits[j + 1].name)

(* Failed candidates dropped, a tie kept in catalog order behind a         *)
(* later-declared candidate of higher R2.                                  *)
C6_Witness ==
    /\ spc = "compare"
    /\ Len(fits) >= 3
    /\ Len(fits) < Len(Catalog)
    /\ fits[2].r2 = fits[3].r2
    /\ CatalogIndex(fits[1].name) > CatalogIndex(fits[3].name)

(* What holds of best_r2 and best_fits while a component is scanned. *)
C10_Threshold ==
    spc \in {"scan", "compare", "returned"} =>
        /\ best_r2 = 0
        /\ IF HasPositiveTop
           THEN /\ best_fits # <<>>
                /\ best_fits[1].r2 = tops[LastPositiveTop]
                /\ best_fits[1].instance_prop = NonId(columns)[LastPositiveTop]
           ELSE best_fits = <<>>
        /\ (spc = "returned" => found = best_fits)

C10_CompareStep ==
    (spc = "compare" /\ fits # <<>>) =>
        best_fits' = IF fits[1].r2 > 0 THEN fits ELSE best_fits

C10_IndexStep ==
    (spc = "returned" /\ found = <<>>) => (spc' = "raised" /\ serr' = "IndexError")

(* C10: the threshold best_r2 stays 0 during the scan; the list returned   *)
(* is the fits of the last-scanned property whose top R2 is above 0, and   *)
(* the empty list when no top is above 0, on which the fits[0] of          *)
(* analyze_complexity then fails.                                          *)
C10_ThresholdNeverMoves ==
    /\ [](C10_Threshold)
    /\ [][C10_CompareStep]_vars
    /\ [][C10_IndexStep]_vars

(* Every property fitted, no top above 0: the empty list is indexed. *)
C10_Witness ==
    /\ spc = "raised"
    /\ serr = "IndexError"
    /\ found = <<>>
    /\ Len(tops) = Len(NonId(columns))
    /\ \E n \in 1..Len(tops) : tops[n] < 0

====
